---- MODULE Spec2Model ----
(***************************************************************************)
(* Model of the transaction ledger of the BudgetSaver backend:             *)
(* controllers/transaction.controller.ts, controllers/partyController.ts   *)
(* and the Mongoose schemas of Project, Party and Transaction.             *)
(*                                                                         *)
(* Every handler is one action (requests are served one at a time in the   *)
(* specification Spec).  The store is the three collections; `last` is the *)
(* response of the last request (and, when it was carried out, what the    *)
(* request was), and `nreq` counts the requests served.  `sent` is the     *)
(* request of the last step in the specifications that look at rejected    *)
(* requests, and `inflight` holds the requests that are between two awaits *)
(* in the specification of concurrent requests; Spec leaves both alone.    *)
(***************************************************************************)
EXTENDS Integers, Sequences, FiniteSets, TLC

VARIABLES projects, parties, transactions, last, nreq, sent, inflight

vars == <<projects, parties, transactions, last, nreq, sent, inflight>>

(***************************************************************************)
(* Bounds and input sets.                                                  *)
(***************************************************************************)
\* number of requests served in one behaviour
MaxReq == 3

Users == {"u1", "u2"}
\* req.user?.id of a request without an authenticated user
NoUser == ""
ProjectIds == {"p1", "p2"}
PartyIds == {"c1", "v1", "c2"}
Types == {"income", "expense"}
PartyTypes == {"CLIENT", "VENDOR"}
Amounts == {-200, 0, 200, 500, 700}
NameInputs == {"A", "B", "B "}

(***************************************************************************)
(* Schemas.                                                                *)
(***************************************************************************)
\* the paths of ProjectSchema the handlers read and write
ProjectPaths ==
  {"createdBy", "code", "status", "totalIncome", "totalExpense", "netProfit"}

\* the paths of TransactionSchema
TransactionPaths == {"project", "party", "type", "amount", "note", "createdBy", "isDeleted"}

\* a new Project document: the schema defaults of the three totals
NewProject(userId) ==
  [createdBy |-> userId, code |-> "", status |-> "ACTIVE",
   totalIncome |-> 0, totalExpense |-> 0, netProfit |-> 0]

\* String.prototype.trim on the names used here
Trim(name) == IF name = "B " THEN "B" ELSE name

\* Schema validation of a Transaction document on save(): the message of the
\* first failing validator, the empty string when the document is valid.
TransactionValidationError(doc) ==
  IF doc.type \notin Types
    THEN "Validator failed for path type: not a valid enum value"
  ELSE IF doc.amount < 0
    THEN "Path amount is less than minimum allowed value (0)."
  ELSE ""

(***************************************************************************)
(* Store operations.                                                       *)
(***************************************************************************)
\* getProjectsByUser: the ids of the projects created by userId
getProjectsByUser(userId) ==
  {p \in DOMAIN projects : projects[p].createdBy = userId}

\* Project.findByIdAndUpdate(id, update) under the strict mode of the schema: the
\* paths of the update that the schema declares are set, the others dropped.
ProjectFindByIdAndUpdate(id, update) ==
  IF id \in DOMAIN projects
    THEN [projects EXCEPT ![id] =
            [f \in ProjectPaths |->
               IF f \in DOMAIN update THEN update[f] ELSE projects[id][f]]]
    ELSE projects

\* the query without the soft-delete condition
FindOwnedTransactionAnyFlag(userId, id) ==
  /\ id \in DOMAIN transactions
  /\ transactions[id].project \in getProjectsByUser(userId)

\* the query without the ownership condition
FindOwnedTransactionAnyOwner(userId, id) ==
  /\ id \in DOMAIN transactions
  /\ transactions[id].isDeleted = FALSE

\* Transaction.findOne({_id: id, isDeleted: false, project: {$in: owned}})
FindOwnedTransaction(userId, id) ==
  /\ id \in DOMAIN transactions
  /\ transactions[id].isDeleted = FALSE
  /\ transactions[id].project \in getProjectsByUser(userId)

(***************************************************************************)
(* Responses.                                                              *)
(***************************************************************************)
NoReq == [none |-> TRUE]
NoDoc == NewProject(NoUser)

TransactionOps == {"createTransaction", "updateTransaction", "deleteTransaction"}

\* the response of a request that ended with an error
Response(op, status, message) ==
  [op |-> op, status |-> status, message |-> message,
   req |-> NoReq, project |-> "", before |-> NoDoc, ledgerOnly |-> FALSE]

\* the response of a request that was carried out: the request, the project
\* whose totals it concerns and the document of that project before the
\* request; ledgerOnly tells that every request served so far was a
\* transaction request that was carried out
Done(op, status, message, req, project) ==
  [op |-> op, status |-> status, message |-> message, req |-> req,
   project |-> project,
   before |-> IF project \in DOMAIN projects THEN projects[project] ELSE NoDoc,
   ledgerOnly |-> last.ledgerOnly /\ op \in TransactionOps]

Outcome(ps, ts, resp) == [projects |-> ps, transactions |-> ts, last |-> resp]

Rejected(op, status, message) ==
  Outcome(projects, transactions, Response(op, status, message))

(***************************************************************************)
(* Party Type Policy.                                                      *)
(***************************************************************************)
PartyTypeErrorMutant(partyType, type) ==
  IF partyType = "VENDOR" /\ type # "expense"
    THEN "VENDOR party can only have EXPENSE transactions"
  ELSE ""

\* The message of the rejection, the empty string when the kind is accepted.
PartyTypeError(partyType, type) ==
  IF partyType = "CLIENT" /\ type # "income"
    THEN "CLIENT party can only have INCOME transactions"
  ELSE IF partyType = "VENDOR" /\ type # "expense"
    THEN "VENDOR party can only have EXPENSE transactions"
  ELSE ""

(***************************************************************************)
(* Ledger arithmetic of the three transaction handlers.  Each operator is  *)
(* the update object the handler passes to Project.findByIdAndUpdate.      *)
(***************************************************************************)
\* createTransaction: the totals after adding the amount to the accumulator
\* of the kind; the difference is written under the key balance.
CreateTotals(project, type, amount) ==
  LET updatedTotalIncome ==
        IF type = "income" THEN project.totalIncome + amount
                           ELSE project.totalIncome
      updatedTotalExpense ==
        IF type = "expense" THEN project.totalExpense + amount
                            ELSE project.totalExpense
  IN [totalIncome |-> updatedTotalIncome,
      totalExpense |-> updatedTotalExpense,
      balance |-> updatedTotalIncome - updatedTotalExpense]

\* updateTransaction: the kind and the amount the transaction will have
NewTypeMutant(existing, updates) == existing.type

NewType(existing, updates) ==
  IF "type" \in DOMAIN updates THEN updates.type ELSE existing.type

NewAmount(existing, updates) ==
  IF "amount" \in DOMAIN updates THEN updates.amount ELSE existing.amount

\* updateTransaction: remove the old amount from the accumulator of the old
\* kind, add the new amount to the accumulator of the new kind.
UpdateTotalsMutant(project, existing, updates) ==
  LET newType == NewType(existing, updates)
      newAmount == NewAmount(existing, updates)
      updatedTotalIncome ==
        IF newType = "income" THEN project.totalIncome + newAmount
                              ELSE project.totalIncome
      updatedTotalExpense ==
        IF newType = "expense" THEN project.totalExpense + newAmount
                               ELSE project.totalExpense
  IN [totalIncome |-> updatedTotalIncome,
      totalExpense |-> updatedTotalExpense,
      netProfit |-> updatedTotalIncome - updatedTotalExpense]

UpdateTotals(project, existing, updates) ==
  LET removedIncome ==
        IF existing.type = "income" THEN project.totalIncome - existing.amount
                                    ELSE project.totalIncome
      removedExpense ==
        IF existing.type = "expense" THEN project.totalExpense - existing.amount
                                     ELSE project.totalExpense
      newType == NewType(existing, updates)
      newAmount == NewAmount(existing, updates)
      updatedTotalIncome ==
        IF newType = "income" THEN removedIncome + newAmount ELSE removedIncome
      updatedTotalExpense ==
        IF newType = "expense" THEN removedExpense + newAmount ELSE removedExpense
  IN [totalIncome |-> updatedTotalIncome,
      totalExpense |-> updatedTotalExpense,
      netProfit |-> updatedTotalIncome - updatedTotalExpense]

\* the subtraction applied to the income accumulator whatever the kind
DeleteTotalsMutant(project, transaction) ==
  [totalIncome |-> project.totalIncome - transaction.amount,
   totalExpense |-> project.totalExpense,
   netProfit |-> project.totalIncome - transaction.amount - project.totalExpense]

\* deleteTransaction: subtract the amount from the accumulator of the kind
DeleteTotals(project, transaction) ==
  LET updatedTotalIncome ==
        IF transaction.type = "income"
          THEN project.totalIncome - transaction.amount
          ELSE project.totalIncome
      updatedTotalExpense ==
        IF transaction.type = "expense"
          THEN project.totalExpense - transaction.amount
          ELSE project.totalExpense
  IN [totalIncome |-> updatedTotalIncome,
      totalExpense |-> updatedTotalExpense,
      netProfit |-> updatedTotalIncome - updatedTotalExpense]

\* Object.assign(existingTransaction, updates): every path of the schema that
\* the request body carries is set on the document.
AssignUpdates(existing, updates) ==
  [f \in TransactionPaths |->
     IF f \in DOMAIN updates THEN updates[f] ELSE existing[f]]

(***************************************************************************)
(* createTransaction                                                       *)
(***************************************************************************)
\* the checks in the order project, party, party type, amount
CreateTransactionOutcomeMutant(userId, body) ==
  IF userId = NoUser
    THEN Rejected("createTransaction", 401, "Unauthorized: User not authenticated")
  ELSE IF body.type \notin Types
    THEN Rejected("createTransaction", 400,
                  "Type must be either 'income' or 'expense'")
  ELSE IF ~ (body.project \in DOMAIN projects
             /\ projects[body.project].createdBy = userId)
    THEN Rejected("createTransaction", 404, "Project not found")
  ELSE IF ~ (body.party \in DOMAIN parties
             /\ parties[body.party].project = body.project)
    THEN Rejected("createTransaction", 404,
                  "Party not found or not associated with this project")
  ELSE IF PartyTypeError(parties[body.party].partyType, body.type) # ""
    THEN Rejected("createTransaction", 400,
                  PartyTypeError(parties[body.party].partyType, body.type))
  ELSE IF body.amount = 0
    THEN Rejected("createTransaction", 400,
                  "Project, Party, Type, and Amount are required fields")
  ELSE IF body.amount <= 0
    THEN Rejected("createTransaction", 400, "Amount must be greater than 0")
  ELSE
    Outcome(ProjectFindByIdAndUpdate(body.project,
              CreateTotals(projects[body.project], body.type, body.amount)),
            Append(transactions,
                   [project |-> body.project, party |-> body.party,
                    type |-> body.type, amount |-> body.amount,
                    note |-> body.note, createdBy |-> userId,
                    isDeleted |-> FALSE]),
            Done("createTransaction", 201, "Transaction created successfully",
                 body, body.project))

CreateTransactionOutcome(userId, body) ==
  IF userId = NoUser
    THEN Rejected("createTransaction", 401, "Unauthorized: User not authenticated")
  ELSE IF body.amount = 0
    THEN Rejected("createTransaction", 400,
                  "Project, Party, Type, and Amount are required fields")
  ELSE IF body.amount <= 0
    THEN Rejected("createTransaction", 400, "Amount must be greater than 0")
  ELSE IF body.type \notin Types
    THEN Rejected("createTransaction", 400,
                  "Type must be either 'income' or 'expense'")
  ELSE IF ~ (body.project \in DOMAIN projects
             /\ projects[body.project].createdBy = userId)
    THEN Rejected("createTransaction", 404, "Project not found")
  ELSE IF ~ (body.party \in DOMAIN parties
             /\ parties[body.party].project = body.project)
    THEN Rejected("createTransaction", 404,
                  "Party not found or not associated with this project")
  ELSE IF PartyTypeError(parties[body.party].partyType, body.type) # ""
    THEN Rejected("createTransaction", 400,
                  PartyTypeError(parties[body.party].partyType, body.type))
  ELSE
    Outcome(ProjectFindByIdAndUpdate(body.project,
              CreateTotals(projects[body.project], body.type, body.amount)),
            Append(transactions,
                   [project |-> body.project, party |-> body.party,
                    type |-> body.type, amount |-> body.amount,
                    note |-> body.note, createdBy |-> userId,
                    isDeleted |-> FALSE]),
            Done("createTransaction", 201, "Transaction created successfully",
                 body, body.project))

CreateTransaction(userId, body) ==
  /\ nreq < MaxReq
  /\ nreq' = nreq + 1
  /\ LET o == CreateTransactionOutcome(userId, body)
     IN /\ projects' = o.projects
        /\ transactions' = o.transactions
        /\ last' = o.last
  /\ UNCHANGED parties

(***************************************************************************)
(* updateTransaction                                                       *)
(***************************************************************************)
\* the party type check of a request that supplies a kind; a transaction
\* whose party is no longer stored is not checked
UpdateTypeError(existing, updates) ==
  IF "type" \in DOMAIN updates /\ existing.party \in DOMAIN parties
    THEN PartyTypeError(parties[existing.party].partyType, updates.type)
    ELSE ""

\* the projects after the totals step of updateTransaction
UpdateProjects(existing, updates) ==
  IF ("amount" \in DOMAIN updates \/ "type" \in DOMAIN updates)
     /\ existing.project \in DOMAIN projects
    THEN ProjectFindByIdAndUpdate(existing.project,
           UpdateTotals(projects[existing.project], existing, updates))
    ELSE projects

UpdateTransactionOutcome(userId, id, updates) ==
  IF userId = NoUser
    THEN Rejected("updateTransaction", 401, "Unauthorized")
  ELSE IF ~ FindOwnedTransaction(userId, id)
    THEN Rejected("updateTransaction", 404, "Transaction not found")
  ELSE IF UpdateTypeError(transactions[id], updates) # ""
    THEN Rejected("updateTransaction", 400,
                  UpdateTypeError(transactions[id], updates))
  ELSE
    LET existing == transactions[id]
        assigned == AssignUpdates(existing, updates)
    IN IF TransactionValidationError(assigned) # ""
         \* save() throws ValidationError after the totals were written
         THEN Outcome(UpdateProjects(existing, updates), transactions,
                      Response("updateTransaction", 400,
                               TransactionValidationError(assigned)))
         ELSE Outcome(UpdateProjects(existing, updates),
                      [transactions EXCEPT ![id] = assigned],
                      Done("updateTransaction", 200,
                           "Transaction updated successfully",
                           [id |-> id, updates |-> updates, old |-> existing],
                           existing.project))

UpdateTransaction(userId, id, updates) ==
  /\ nreq < MaxReq
  /\ nreq' = nreq + 1
  /\ LET o == UpdateTransactionOutcome(userId, id, updates)
     IN /\ projects' = o.projects
        /\ transactions' = o.transactions
        /\ last' = o.last
  /\ UNCHANGED parties

(***************************************************************************)
(* deleteTransaction (soft delete)                                         *)
(***************************************************************************)
\* a hard delete: the record is removed from the collection
DeleteTransactionOutcomeMutant(userId, id) ==
  IF userId = NoUser
    THEN Rejected("deleteTransaction", 401, "Unauthorized")
  ELSE IF ~ FindOwnedTransaction(userId, id)
    THEN Rejected("deleteTransaction", 404, "Transaction not found")
  ELSE
    LET transaction == transactions[id]
    IN Outcome(IF transaction.project \in DOMAIN projects
                 THEN ProjectFindByIdAndUpdate(transaction.project,
                        DeleteTotals(projects[transaction.project], transaction))
                 ELSE projects,
               SubSeq(transactions, 1, id - 1)
                 \o SubSeq(transactions, id + 1, Len(transactions)),
               Done("deleteTransaction", 200,
                    "Transaction deleted successfully",
                    [id |-> id, old |-> transaction], transaction.project))

DeleteTransactionOutcome(userId, id) ==
  IF userId = NoUser
    THEN Rejected("deleteTransaction", 401, "Unauthorized")
  ELSE IF ~ FindOwnedTransaction(userId, id)
    THEN Rejected("deleteTransaction", 404, "Transaction not found")
  ELSE
    LET transaction == transactions[id]
    IN Outcome(IF transaction.project \in DOMAIN projects
                 THEN ProjectFindByIdAndUpdate(transaction.project,
                        DeleteTotals(projects[transaction.project], transaction))
                 ELSE projects,
               [transactions EXCEPT ![id].isDeleted = TRUE],
               Done("deleteTransaction", 200,
                    "Transaction deleted successfully",
                    [id |-> id, old |-> transaction], transaction.project))

DeleteTransaction(userId, id) ==
  /\ nreq < MaxReq
  /\ nreq' = nreq + 1
  /\ LET o == DeleteTransactionOutcome(userId, id)
     IN /\ projects' = o.projects
        /\ transactions' = o.transactions
        /\ last' = o.last
  /\ UNCHANGED parties

(***************************************************************************)
(* partyController: updateParty, deleteParty                               *)
(***************************************************************************)
\* Party.findOne({project, name, _id: {$ne: partyId}})
DuplicateName(projectId, partyId, name) ==
  \E q \in DOMAIN parties \ {partyId} :
     parties[q].project = projectId /\ parties[q].name = name

\* the updateFields of updateParty: name and partyType when supplied
PartyUpdateFields(existingParty, updateData) ==
  [f \in {g \in {"name", "partyType"} :
            /\ g \in DOMAIN updateData
            /\ (g = "name" => updateData.name # existingParty.name)} |->
     IF f = "name" THEN Trim(updateData.name) ELSE updateData.partyType]

UpdateParty(projectId, partyId, updateData) ==
  /\ nreq < MaxReq
  /\ nreq' = nreq + 1
  /\ UNCHANGED <<projects, transactions>>
  /\ IF projectId \notin DOMAIN projects
       THEN /\ last' = Response("updateParty", 404, "Project not found")
            /\ UNCHANGED parties
     ELSE IF ~ (partyId \in DOMAIN parties
                /\ parties[partyId].project = projectId)
       THEN /\ last' = Response("updateParty", 404, "Party not found")
            /\ UNCHANGED parties
     ELSE IF /\ "name" \in DOMAIN updateData
             /\ updateData.name # parties[partyId].name
             /\ DuplicateName(projectId, partyId, Trim(updateData.name))
       THEN /\ last' = Response("updateParty", 409,
                                "Party with this name already exists in this project")
            /\ UNCHANGED parties
     ELSE IF /\ "partyType" \in DOMAIN updateData
             /\ updateData.partyType \notin PartyTypes
       THEN /\ last' = Response("updateParty", 400,
                                "partyType must be CLIENT or VENDOR")
            /\ UNCHANGED parties
     ELSE LET updateFields == PartyUpdateFields(parties[partyId], updateData)
          IN /\ parties' =
                  [parties EXCEPT ![partyId] =
                     [f \in DOMAIN parties[partyId] |->
                        IF f \in DOMAIN updateFields
                          THEN updateFields[f] ELSE parties[partyId][f]]]
             /\ last' = Done("updateParty", 200, "Party updated successfully",
                             [party |-> partyId, updates |-> updateData],
                             projectId)

DeleteParty(projectId, partyId) ==
  /\ nreq < MaxReq
  /\ nreq' = nreq + 1
  /\ UNCHANGED <<projects, transactions>>
  /\ IF projectId \notin DOMAIN projects
       THEN /\ last' = Response("deleteParty", 404, "Project not found")
            /\ UNCHANGED parties
     ELSE IF ~ (partyId \in DOMAIN parties
                /\ parties[partyId].project = projectId)
       THEN /\ last' = Response("deleteParty", 404, "Party not found")
            /\ UNCHANGED parties
     ELSE /\ parties' = [q \in DOMAIN parties \ {partyId} |-> parties[q]]
          /\ last' = Done("deleteParty", 200, "Party deleted successfully",
                          [party |-> partyId], projectId)

\* the id of the document a request creates: a fresh id for each request
NewId == <<"n1", "n2", "n3", "n4", "n5", "n6">>[nreq + 1]

\* createParty: the name is looked up and stored trimmed
CreateParty(projectId, body) ==
  /\ nreq < MaxReq
  /\ nreq' = nreq + 1
  /\ UNCHANGED <<projects, transactions>>
  /\ IF body.partyType \notin PartyTypes
       THEN /\ last' = Response("createParty", 400,
                                "partyType must be CLIENT or VENDOR")
            /\ UNCHANGED parties
     ELSE IF projectId \notin DOMAIN projects
       THEN /\ last' = Response("createParty", 404, "Project not found")
            /\ UNCHANGED parties
     ELSE IF \E q \in DOMAIN parties :
                parties[q].project = projectId /\ parties[q].name = Trim(body.name)
       THEN /\ last' = Response("createParty", 409,
                                "Party with this name already exists in this project")
            /\ UNCHANGED parties
     ELSE /\ parties' =
               [q \in DOMAIN parties \cup {NewId} |->
                  IF q = NewId
                    THEN [project |-> projectId, partyType |-> body.partyType,
                          name |-> Trim(body.name)]
                    ELSE parties[q]]
          /\ last' = Done("createParty", 201, "created successfully",
                          [party |-> NewId, body |-> body], projectId)

(***************************************************************************)
(* projectController: createProject, updateProject, updateProjectStatus,   *)
(* updateProjectFinancials, deleteProject, forceDeleteProject.  The        *)
(* handlers do not look at the user of the request, except createProject   *)
(* for createdBy.                                                          *)
(***************************************************************************)
Statuses == {"PLANNED", "ACTIVE", "COMPLETED", "ON_HOLD"}

\* code.trim().toUpperCase() on the codes used here
FormatCode(code) ==
  IF code = "p1" THEN "P1" ELSE IF code = "p3 " THEN "P3" ELSE code

EmptyFields == [f \in {} |-> 0]

\* a || b on numbers: b when a is undefined or 0
OrElse(fields, f, b) ==
  IF f \in DOMAIN fields /\ fields[f] # 0 THEN fields[f] ELSE b

createProject(userId, body) ==
  /\ nreq < MaxReq
  /\ nreq' = nreq + 1
  /\ UNCHANGED <<parties, transactions>>
  /\ IF body.status \notin Statuses
       THEN /\ last' = Response("createProject", 400, "Invalid status value")
            /\ UNCHANGED projects
     ELSE IF \E p \in DOMAIN projects : projects[p].code = FormatCode(body.code)
       THEN /\ last' = Response("createProject", 409, "Project code already exists")
            /\ UNCHANGED projects
     ELSE /\ projects' =
               [p \in DOMAIN projects \cup {NewId} |->
                  IF p = NewId
                    THEN [NewProject(userId) EXCEPT !.code = FormatCode(body.code),
                                                    !.status = body.status]
                    ELSE projects[p]]
          /\ last' = [Done("createProject", 201, "Project created successfully",
                           body, NewId) EXCEPT !.before = NoDoc]

\* the updateFields of updateProject for status and the financial fields
UpdateProjectFields(existingProject, updateData) ==
  LET status == [f \in {"status"} \cap DOMAIN updateData |-> updateData.status]
      income ==
        IF "totalIncome" \in DOMAIN updateData
          THEN [totalIncome |-> updateData.totalIncome,
                netProfit |-> updateData.totalIncome
                                - existingProject.totalExpense]
          ELSE EmptyFields
      expense ==
        IF "totalExpense" \in DOMAIN updateData
          THEN [totalExpense |-> updateData.totalExpense,
                netProfit |-> OrElse(income, "totalIncome",
                                     existingProject.totalIncome)
                                - updateData.totalExpense]
          ELSE EmptyFields
  IN [f \in DOMAIN status \cup DOMAIN income \cup DOMAIN expense |->
        IF f \in DOMAIN expense THEN expense[f]
        ELSE IF f \in DOMAIN income THEN income[f]
        ELSE status[f]]

updateProject(id, updateData) ==
  /\ nreq < MaxReq
  /\ nreq' = nreq + 1
  /\ UNCHANGED <<parties, transactions>>
  /\ IF id \notin DOMAIN projects
       THEN /\ last' = Response("updateProject", 404, "Project not found")
            /\ UNCHANGED projects
     ELSE IF "status" \in DOMAIN updateData /\ updateData.status \notin Statuses
       THEN /\ last' = Response("updateProject", 400, "Invalid status value")
            /\ UNCHANGED projects
     ELSE IF "totalIncome" \in DOMAIN updateData /\ updateData.totalIncome < 0
       THEN /\ last' = Response("updateProject", 400,
                                "Total income cannot be negative")
            /\ UNCHANGED projects
     ELSE IF "totalExpense" \in DOMAIN updateData /\ updateData.totalExpense < 0
       THEN /\ last' = Response("updateProject", 400,
                                "Total expense cannot be negative")
            /\ UNCHANGED projects
     ELSE /\ projects' = ProjectFindByIdAndUpdate(id,
                           UpdateProjectFields(projects[id], updateData))
          /\ last' = Done("updateProject", 200, "Project updated successfully",
                          updateData, id)

updateProjectStatus(id, status) ==
  /\ nreq < MaxReq
  /\ nreq' = nreq + 1
  /\ UNCHANGED <<parties, transactions>>
  /\ IF status \notin Statuses
       THEN /\ last' = Response("updateProjectStatus", 400, "Invalid status value")
            /\ UNCHANGED projects
     ELSE IF id \notin DOMAIN projects
       THEN /\ last' = Response("updateProjectStatus", 404, "Project not found")
            /\ UNCHANGED projects
     ELSE /\ projects' = ProjectFindByIdAndUpdate(id, [status |-> status])
          /\ last' = Done("updateProjectStatus", 200,
                          "Project status updated successfully",
                          [status |-> status], id)

\* the updateFields of updateProjectFinancials
FinancialFields(project, body) ==
  LET finalIncome == IF "totalIncome" \in DOMAIN body
                       THEN body.totalIncome ELSE project.totalIncome
      finalExpense == IF "totalExpense" \in DOMAIN body
                        THEN body.totalExpense ELSE project.totalExpense
  IN [f \in (DOMAIN body \cap {"totalIncome", "totalExpense"}) \cup {"netProfit"} |->
        IF f = "netProfit" THEN finalIncome - finalExpense ELSE body[f]]

updateProjectFinancials(id, body) ==
  /\ nreq < MaxReq
  /\ nreq' = nreq + 1
  /\ UNCHANGED <<parties, transactions>>
  /\ IF "totalIncome" \in DOMAIN body /\ body.totalIncome < 0
       THEN /\ last' = Response("updateProjectFinancials", 400,
                                "Total income cannot be negative")
            /\ UNCHANGED projects
     ELSE IF "totalExpense" \in DOMAIN body /\ body.totalExpense < 0
       THEN /\ last' = Response("updateProjectFinancials", 400,
                                "Total expense cannot be negative")
            /\ UNCHANGED projects
     ELSE IF id \notin DOMAIN projects
       THEN /\ last' = Response("updateProjectFinancials", 404, "Project not found")
            /\ UNCHANGED projects
     ELSE /\ projects' = ProjectFindByIdAndUpdate(id,
                           FinancialFields(projects[id], body))
          /\ last' = Done("updateProjectFinancials", 200,
                          "Project financials updated successfully", body, id)

\* Party.countDocuments({project: id})
PartiesCount(id) == Cardinality({q \in DOMAIN parties : parties[q].project = id})

deleteProject(id) ==
  /\ nreq < MaxReq
  /\ nreq' = nreq + 1
  /\ UNCHANGED <<parties, transactions>>
  /\ IF id \notin DOMAIN projects
       THEN /\ last' = Response("deleteProject", 404, "Project not found")
            /\ UNCHANGED projects
     ELSE IF PartiesCount(id) > 0
       THEN /\ last' = Response("deleteProject", 400,
                                "Cannot delete project. It has associated parties.")
            /\ UNCHANGED projects
     ELSE /\ projects' = [p \in DOMAIN projects \ {id} |-> projects[p]]
          /\ last' = Done("deleteProject", 200, "Project deleted successfully",
                          [id |-> id], id)

\* a force delete that also removes the transactions of the project
forceDeleteProjectMutant(id) ==
  /\ nreq < MaxReq
  /\ nreq' = nreq + 1
  /\ IF id \notin DOMAIN projects
       THEN /\ last' = Response("forceDeleteProject", 404, "Project not found")
            /\ UNCHANGED <<projects, parties, transactions>>
     ELSE /\ parties' = [q \in {r \in DOMAIN parties : parties[r].project # id} |->
                           parties[q]]
          /\ projects' = [p \in DOMAIN projects \ {id} |-> projects[p]]
          /\ transactions' = SelectSeq(transactions, LAMBDA t : t.project # id)
          /\ last' = Done("forceDeleteProject", 200,
                          "Project and all associated parties deleted successfully",
                          [id |-> id], id)

\* Party.deleteMany({project: id}), then Project.findByIdAndDelete(id)
forceDeleteProject(id) ==
  /\ nreq < MaxReq
  /\ nreq' = nreq + 1
  /\ UNCHANGED transactions
  /\ IF id \notin DOMAIN projects
       THEN /\ last' = Response("forceDeleteProject", 404, "Project not found")
            /\ UNCHANGED <<projects, parties>>
     ELSE /\ parties' = [q \in {r \in DOMAIN parties : parties[r].project # id} |->
                           parties[q]]
          /\ projects' = [p \in DOMAIN projects \ {id} |-> projects[p]]
          /\ last' = Done("forceDeleteProject", 200,
                          "Project and all associated parties deleted successfully",
                          [id |-> id], id)

(***************************************************************************)
(* Read handlers: getTransactionById, getAllTransactions,                  *)
(* getTransactionsByProject.  Dates, search and paging play no part: the   *)
(* requests use the default page and limit, which hold every record here.  *)
(***************************************************************************)
RECURSIVE SumSelected(_, _, _)
\* $group by type, $sum of amount: the total of the given kind over the
\* selected ones of the first n transactions
SumSelected(n, ids, kind) ==
  IF n = 0 THEN 0
  ELSE SumSelected(n - 1, ids, kind)
       + (IF n \in ids /\ transactions[n].type = kind
            THEN transactions[n].amount ELSE 0)

\* a summary taken from the accumulators of the projects of the selection
SummaryMutant(ids) ==
  LET ps == {transactions[i].project : i \in ids} \cap DOMAIN projects
      income == IF ps = {} THEN 0 ELSE projects[CHOOSE p \in ps : TRUE].totalIncome
      expense == IF ps = {} THEN 0 ELSE projects[CHOOSE p \in ps : TRUE].totalExpense
  IN [totalIncome |-> income, totalExpense |-> expense,
      netAmount |-> income - expense, totalTransactions |-> Cardinality(ids)]

\* the summary of a list response: aggregate over the documents that match
\* the filter
Summary(ids) ==
  LET incomeTotal == SumSelected(Len(transactions), ids, "income")
      expenseTotal == SumSelected(Len(transactions), ids, "expense")
  IN [totalIncome |-> incomeTotal, totalExpense |-> expenseTotal,
      netAmount |-> incomeTotal - expenseTotal,
      totalTransactions |-> Cardinality(ids)]

\* the filter of getAllTransactions without the soft-delete condition
AllTransactionsFilterMutant(userId, query) ==
  {i \in DOMAIN transactions :
     /\ IF "project" \in DOMAIN query
          THEN transactions[i].project = query.project
          ELSE transactions[i].project \in getProjectsByUser(userId)
     /\ ("party" \in DOMAIN query => transactions[i].party = query.party)
     /\ ("type" \in DOMAIN query => transactions[i].type = query.type)}

\* the filter of getAllTransactions: not soft-deleted, of a project of the
\* user (or of the project of the query), of the party and kind of the query
AllTransactionsFilter(userId, query) ==
  {i \in DOMAIN transactions :
     /\ transactions[i].isDeleted = FALSE
     /\ IF "project" \in DOMAIN query
          THEN transactions[i].project = query.project
          ELSE transactions[i].project \in getProjectsByUser(userId)
     /\ ("party" \in DOMAIN query => transactions[i].party = query.party)
     /\ ("type" \in DOMAIN query => transactions[i].type = query.type)}

\* the filter of getTransactionsByProject
ProjectTransactionsFilter(projectId, query) ==
  {i \in DOMAIN transactions :
     /\ transactions[i].project = projectId
     /\ transactions[i].isDeleted = FALSE
     /\ ("type" \in DOMAIN query => transactions[i].type = query.type)}

GetTransactionById(userId, id) ==
  /\ nreq < MaxReq
  /\ nreq' = nreq + 1
  /\ UNCHANGED <<projects, parties, transactions>>
  /\ last' =
       IF userId = NoUser
         THEN Response("getTransactionById", 401, "Unauthorized")
       ELSE IF ~ FindOwnedTransaction(userId, id)
         THEN Response("getTransactionById", 404, "Transaction not found")
       ELSE Done("getTransactionById", 200, "",
                 [id |-> id, data |-> transactions[id]],
                 transactions[id].project)

GetAllTransactions(userId, query) ==
  /\ nreq < MaxReq
  /\ nreq' = nreq + 1
  /\ UNCHANGED <<projects, parties, transactions>>
  /\ last' =
       IF userId = NoUser
         THEN Response("getAllTransactions", 401, "Unauthorized")
       ELSE IF /\ "project" \in DOMAIN query
               /\ ~ (query.project \in DOMAIN projects
                     /\ projects[query.project].createdBy = userId)
         THEN Response("getAllTransactions", 403, "Access denied to this project")
       ELSE LET ids == AllTransactionsFilter(userId, query)
            IN Done("getAllTransactions", 200, "",
                    [userId |-> userId, query |-> query, data |-> ids,
                     summary |-> Summary(ids)],
                    "")

GetTransactionsByProject(userId, projectId, query) ==
  /\ nreq < MaxReq
  /\ nreq' = nreq + 1
  /\ UNCHANGED <<projects, parties, transactions>>
  /\ last' =
       IF userId = NoUser
         THEN Response("getTransactionsByProject", 401, "Unauthorized")
       ELSE IF ~ (projectId \in DOMAIN projects
                  /\ projects[projectId].createdBy = userId)
         THEN Response("getTransactionsByProject", 404, "Project not found")
       ELSE LET ids == ProjectTransactionsFilter(projectId, query)
            IN Done("getTransactionsByProject", 200, "",
                    [userId |-> userId, query |-> query, data |-> ids,
                     summary |-> Summary(ids)],
                    projectId)

(***************************************************************************)
(* Requests and the specification.                                         *)
(***************************************************************************)
Actors == Users \cup {NoUser}

CreateBodies ==
  {[project |-> p, party |-> q, type |-> t, amount |-> a, note |-> "a"] :
     p \in ProjectIds, q \in PartyIds, t \in Types, a \in Amounts}

\* request bodies of updateTransaction: any of kind and amount, or one of the
\* other paths of the schema
UpdateBodies ==
  {[amount |-> a] : a \in Amounts}
  \cup {[type |-> t] : t \in Types}
  \cup {[type |-> t, amount |-> a] : t \in Types, a \in Amounts}
  \cup {[note |-> "b"], [isDeleted |-> TRUE], [isDeleted |-> FALSE]}
  \cup {[project |-> p] : p \in ProjectIds}
  \cup {[party |-> q] : q \in PartyIds}

PartyBodies ==
  {[partyType |-> t] : t \in PartyTypes} \cup {[name |-> n] : n \in NameInputs}

\* well-formed transaction ids: the stored ones and one that is not stored
TransactionIds == 1..(Len(transactions) + 1)

\* The store after u1 created project p1 with the client c1 and the vendor
\* v1, and u2 created project p2 with the client c2; no transaction yet.
Init ==
  /\ projects = [p \in ProjectIds |->
                   [NewProject(IF p = "p1" THEN "u1" ELSE "u2")
                      EXCEPT !.code = IF p = "p1" THEN "P1" ELSE "P2"]]
  /\ parties = [q \in PartyIds |->
                  [project |-> IF q = "c2" THEN "p2" ELSE "p1",
                   partyType |-> IF q = "v1" THEN "VENDOR" ELSE "CLIENT",
                   name |-> IF q = "v1" THEN "B" ELSE "A"]]
  /\ transactions = <<>>
  /\ last = [Response("none", 0, "") EXCEPT !.ledgerOnly = TRUE]
  /\ nreq = 0
  /\ sent = NoReq
  /\ inflight = <<>>

CreateTransactionReq ==
  \E userId \in Actors, body \in CreateBodies :
     CreateTransaction(userId, body) /\ UNCHANGED <<sent, inflight>>

UpdateTransactionReq ==
  \E userId \in Actors, id \in TransactionIds, updates \in UpdateBodies :
     UpdateTransaction(userId, id, updates) /\ UNCHANGED <<sent, inflight>>

DeleteTransactionReq ==
  \E userId \in Actors, id \in TransactionIds :
     DeleteTransaction(userId, id) /\ UNCHANGED <<sent, inflight>>

UpdatePartyReq ==
  \E projectId \in ProjectIds, partyId \in PartyIds, updateData \in PartyBodies :
     UpdateParty(projectId, partyId, updateData) /\ UNCHANGED <<sent, inflight>>

DeletePartyReq ==
  \E projectId \in ProjectIds, partyId \in PartyIds :
     DeleteParty(projectId, partyId) /\ UNCHANGED <<sent, inflight>>

Next ==
  \/ CreateTransactionReq
  \/ UpdateTransactionReq
  \/ DeleteTransactionReq
  \/ UpdatePartyReq
  \/ DeletePartyReq

Spec == Init /\ [][Next]_vars

(***************************************************************************)
(* SpecCreate: createTransaction requests with every combination of        *)
(* failing preconditions; the request of each step is kept in `sent`.      *)
(***************************************************************************)
CallCreateBodies ==
  {[project |-> p, party |-> q, type |-> t, amount |-> a, note |-> "a"] :
     p \in ProjectIds, q \in PartyIds, t \in Types \cup {"refund"},
     a \in {-200, 0, 200}}

CreateTransactionCall ==
  \E userId \in Actors, body \in CallCreateBodies :
     /\ CreateTransaction(userId, body)
     /\ sent' = [op |-> "createTransaction", userId |-> userId, body |-> body]
     /\ UNCHANGED inflight

DeletePartyCall ==
  \E projectId \in ProjectIds, partyId \in PartyIds :
     /\ DeleteParty(projectId, partyId)
     /\ sent' = [op |-> "deleteParty", project |-> projectId, party |-> partyId]
     /\ UNCHANGED inflight

NextCreate == CreateTransactionCall \/ DeletePartyCall

SpecCreate == Init /\ [][NextCreate]_vars

(***************************************************************************)
(* SpecAccess: the requests that address one transaction by id, by its     *)
(* owner, by another user and after its soft delete; the request of each   *)
(* step is kept in `sent`.                                                 *)
(***************************************************************************)
AccessCreateBodies ==
  {[project |-> "p1", party |-> "c1", type |-> "income", amount |-> 200, note |-> "a"],
   [project |-> "p2", party |-> "c2", type |-> "income", amount |-> 500, note |-> "a"]}

AccessUpdateBodies ==
  {[amount |-> 700], [type |-> "expense"], [note |-> "b"], [isDeleted |-> FALSE]}

CreateTransactionAccess ==
  \E userId \in Users, body \in AccessCreateBodies :
     /\ CreateTransaction(userId, body)
     /\ sent' = [op |-> "createTransaction", userId |-> userId, body |-> body]
     /\ UNCHANGED inflight

GetTransactionByIdAccess ==
  \E userId \in Actors, id \in TransactionIds :
     /\ GetTransactionById(userId, id)
     /\ sent' = [op |-> "getTransactionById", userId |-> userId, id |-> id]
     /\ UNCHANGED inflight

UpdateTransactionAccess ==
  \E userId \in Actors, id \in TransactionIds, updates \in AccessUpdateBodies :
     /\ UpdateTransaction(userId, id, updates)
     /\ sent' = [op |-> "updateTransaction", userId |-> userId, id |-> id,
                 updates |-> updates]
     /\ UNCHANGED inflight

DeleteTransactionAccess ==
  \E userId \in Actors, id \in TransactionIds :
     /\ DeleteTransaction(userId, id)
     /\ sent' = [op |-> "deleteTransaction", userId |-> userId, id |-> id]
     /\ UNCHANGED inflight

NextAccess ==
  \/ CreateTransactionAccess
  \/ GetTransactionByIdAccess
  \/ UpdateTransactionAccess
  \/ DeleteTransactionAccess

SpecAccess == Init /\ [][NextAccess]_vars

(***************************************************************************)
(* SpecOwner: transaction requests of the two users, with update bodies    *)
(* that name a project or a party; the request of each step is in sent.    *)
(***************************************************************************)
OwnerUpdateBodies ==
  {[amount |-> 700], [note |-> "b"]}
  \cup {[project |-> p] : p \in ProjectIds}
  \cup {[party |-> q] : q \in PartyIds}

UpdateTransactionOwner ==
  \E userId \in Users, id \in TransactionIds, updates \in OwnerUpdateBodies :
     /\ UpdateTransaction(userId, id, updates)
     /\ sent' = [op |-> "updateTransaction", userId |-> userId, id |-> id,
                 updates |-> updates]
     /\ UNCHANGED inflight

NextOwner ==
  \/ CreateTransactionAccess
  \/ UpdateTransactionOwner
  \/ DeleteTransactionAccess

SpecOwner == Init /\ [][NextOwner]_vars

(***************************************************************************)
(* SpecProject: the project requests, after transactions were created.     *)
(***************************************************************************)
ProjectBodies ==
  {[totalIncome |-> 500], [totalExpense |-> 200], [totalIncome |-> -200],
   [totalIncome |-> 0, totalExpense |-> 200],
   [status |-> "COMPLETED"], [status |-> "BOGUS"]}

FinancialBodies ==
  {[totalIncome |-> 500], [totalExpense |-> 200], [totalExpense |-> -200],
   [totalIncome |-> 0, totalExpense |-> 200]}

NewProjectBodies ==
  {[code |-> "p1", status |-> "ACTIVE"], [code |-> "p3 ", status |-> "ACTIVE"],
   [code |-> "p3 ", status |-> "BOGUS"]}

CreateTransactionProject ==
  \E body \in AccessCreateBodies :
     /\ CreateTransaction(projects[body.project].createdBy, body)
     /\ UNCHANGED <<sent, inflight>>

createProjectReq ==
  \E userId \in Users, body \in NewProjectBodies :
     createProject(userId, body) /\ UNCHANGED <<sent, inflight>>

updateProjectReq ==
  \E id \in ProjectIds \cup {"p9"}, updateData \in ProjectBodies :
     updateProject(id, updateData) /\ UNCHANGED <<sent, inflight>>

updateProjectStatusReq ==
  \E id \in ProjectIds \cup {"p9"}, status \in {"COMPLETED", "BOGUS"} :
     updateProjectStatus(id, status) /\ UNCHANGED <<sent, inflight>>

updateProjectFinancialsReq ==
  \E id \in ProjectIds \cup {"p9"}, body \in FinancialBodies :
     updateProjectFinancials(id, body) /\ UNCHANGED <<sent, inflight>>

NextProject ==
  \/ CreateTransactionProject
  \/ createProjectReq
  \/ updateProjectReq
  \/ updateProjectStatusReq
  \/ updateProjectFinancialsReq

SpecProject == Init /\ [][NextProject]_vars

(***************************************************************************)
(* SpecCascade: projects are deleted while transactions reference them,    *)
(* and the transactions are addressed afterwards.                          *)
(***************************************************************************)
deleteProjectCascade ==
  \E id \in ProjectIds :
     /\ deleteProject(id)
     /\ sent' = [op |-> "deleteProject", id |-> id]
     /\ UNCHANGED inflight

forceDeleteProjectCascade ==
  \E id \in ProjectIds :
     /\ forceDeleteProject(id)
     /\ sent' = [op |-> "forceDeleteProject", id |-> id]
     /\ UNCHANGED inflight

NextCascade ==
  \/ CreateTransactionAccess
  \/ DeletePartyCall
  \/ deleteProjectCascade
  \/ forceDeleteProjectCascade
  \/ GetTransactionByIdAccess
  \/ UpdateTransactionAccess
  \/ DeleteTransactionAccess

SpecCascade == Init /\ [][NextCascade]_vars

(***************************************************************************)
(* SpecRead: the list handlers over stores that hold soft-deleted          *)
(* transactions and totals that differ from the sums.                      *)
(***************************************************************************)
ReadCreateBodies ==
  {[project |-> "p1", party |-> "c1", type |-> "income", amount |-> 500, note |-> "a"],
   [project |-> "p1", party |-> "v1", type |-> "expense", amount |-> 200, note |-> "a"],
   [project |-> "p2", party |-> "c2", type |-> "income", amount |-> 200, note |-> "a"]}

ReadUpdateBodies == {[amount |-> 700], [isDeleted |-> TRUE]}

Queries ==
  {[page |-> 1]}
  \cup {[page |-> 1, project |-> p] : p \in ProjectIds}
  \cup {[page |-> 1, type |-> t] : t \in Types}
  \cup {[page |-> 1, party |-> "c1"]}

ProjectQueries == {[page |-> 1]} \cup {[page |-> 1, type |-> t] : t \in Types}

CreateTransactionRead ==
  \E userId \in Users, body \in ReadCreateBodies :
     CreateTransaction(userId, body) /\ UNCHANGED <<sent, inflight>>

UpdateTransactionRead ==
  \E userId \in Users, id \in DOMAIN transactions, updates \in ReadUpdateBodies :
     UpdateTransaction(userId, id, updates) /\ UNCHANGED <<sent, inflight>>

DeleteTransactionRead ==
  \E userId \in Users, id \in DOMAIN transactions :
     DeleteTransaction(userId, id) /\ UNCHANGED <<sent, inflight>>

GetTransactionByIdRead ==
  \E userId \in Actors, id \in TransactionIds :
     GetTransactionById(userId, id) /\ UNCHANGED <<sent, inflight>>

GetAllTransactionsRead ==
  \E userId \in Actors, query \in Queries :
     GetAllTransactions(userId, query) /\ UNCHANGED <<sent, inflight>>

GetTransactionsByProjectRead ==
  \E userId \in Actors, projectId \in ProjectIds, query \in ProjectQueries :
     GetTransactionsByProject(userId, projectId, query)
     /\ UNCHANGED <<sent, inflight>>

NextRead ==
  \/ CreateTransactionRead
  \/ UpdateTransactionRead
  \/ DeleteTransactionRead
  \/ GetTransactionByIdRead
  \/ GetAllTransactionsRead
  \/ GetTransactionsByProjectRead

SpecRead == Init /\ [][NextRead]_vars

(***************************************************************************)
(* SpecConc: createTransaction requests served concurrently.  The handler  *)
(* gives up control at each await, so a request is a slot of inflight that *)
(* advances one store operation at a time: Project.findOne, Party.findOne, *)
(* Project.findByIdAndUpdate, Transaction.create.  A slot keeps the        *)
(* documents the handler holds in projectExists and partyExists; writes    *)
(* counts the findByIdAndUpdate calls made before its Project.findOne,     *)
(* seq is the rank of its own findByIdAndUpdate, id its record.            *)
(***************************************************************************)
\* the number of requests served concurrently
MaxConc == 2

ConcBodies ==
  {[project |-> "p1", party |-> "c1", type |-> "income", amount |-> 200, note |-> "a"],
   [project |-> "p1", party |-> "c1", type |-> "income", amount |-> 500, note |-> "a"],
   [project |-> "p1", party |-> "v1", type |-> "expense", amount |-> 500, note |-> "a"],
   [project |-> "p1", party |-> "c1", type |-> "expense", amount |-> 200, note |-> "a"],
   [project |-> "p1", party |-> "c2", type |-> "income", amount |-> 200, note |-> "a"],
   [project |-> "p2", party |-> "c2", type |-> "income", amount |-> 200, note |-> "a"],
   [project |-> "p1", party |-> "c1", type |-> "income", amount |-> 0, note |-> "a"]}

NoParty == [project |-> "", partyType |-> "", name |-> ""]

\* the number of findByIdAndUpdate calls the slots have made
Writes == Cardinality({k \in DOMAIN inflight : inflight[k].seq > 0})

\* the slots without slot k
Drop(k) == SubSeq(inflight, 1, k - 1) \o SubSeq(inflight, k + 1, Len(inflight))

\* the totals a slot writes, from a project document read now
FreshTotals(k) ==
  CreateTotals(projects[inflight[k].body.project],
               inflight[k].body.type, inflight[k].body.amount)

\* the totals a slot writes, from the project document it holds
SlotTotals(k) ==
  CreateTotals(inflight[k].projectExists,
               inflight[k].body.type, inflight[k].body.amount)

\* the request arrives: the checks before the first await
CreateTransactionArrive(userId, body) ==
  /\ nreq < MaxConc
  /\ nreq' = nreq + 1
  /\ IF body.amount <= 0 \/ body.type \notin Types
       THEN /\ last' = CreateTransactionOutcome(userId, body).last
            /\ UNCHANGED inflight
       ELSE /\ inflight' = Append(inflight,
                             [userId |-> userId, body |-> body,
                              pc |-> "findProject", projectExists |-> NoDoc,
                              partyExists |-> NoParty, writes |-> 0,
                              seq |-> 0, id |-> 0])
            /\ UNCHANGED last
  /\ UNCHANGED <<projects, parties, transactions>>

CreateTransactionBegin ==
  \E userId \in {"u1"}, body \in ConcBodies :
     CreateTransactionArrive(userId, body) /\ UNCHANGED sent

\* await Project.findOne({_id: project, createdBy: userId})
CreateTransactionFindProject ==
  \E k \in DOMAIN inflight :
     /\ inflight[k].pc = "findProject"
     /\ LET slot == inflight[k]
        IN IF /\ slot.body.project \in DOMAIN projects
              /\ projects[slot.body.project].createdBy = slot.userId
             THEN /\ inflight' = [inflight EXCEPT
                                    ![k].pc = "findParty",
                                    ![k].projectExists = projects[slot.body.project],
                                    ![k].writes = Writes]
                  /\ UNCHANGED last
             ELSE /\ inflight' = Drop(k)
                  /\ last' = Response("createTransaction", 404, "Project not found")
     /\ UNCHANGED <<projects, parties, transactions, nreq, sent>>

\* await Party.findOne({_id: party, project: project})
CreateTransactionFindParty ==
  \E k \in DOMAIN inflight :
     /\ inflight[k].pc = "findParty"
     /\ LET slot == inflight[k]
        IN IF /\ slot.body.party \in DOMAIN parties
              /\ parties[slot.body.party].project = slot.body.project
             THEN /\ inflight' = [inflight EXCEPT
                                    ![k].pc = "update",
                                    ![k].partyExists = parties[slot.body.party]]
                  /\ UNCHANGED last
             ELSE /\ inflight' = Drop(k)
                  /\ last' = Response("createTransaction", 404,
                               "Party not found or not associated with this project")
     /\ UNCHANGED <<projects, parties, transactions, nreq, sent>>

\* the party type checks, then await Project.findByIdAndUpdate(project, totals)
CreateTransactionUpdateProject ==
  \E k \in DOMAIN inflight :
     /\ inflight[k].pc = "update"
     /\ LET slot == inflight[k]
        IN IF PartyTypeError(slot.partyExists.partyType, slot.body.type) # ""
             THEN /\ inflight' = Drop(k)
                  /\ last' = Response("createTransaction", 400,
                               PartyTypeError(slot.partyExists.partyType,
                                              slot.body.type))
                  /\ UNCHANGED projects
             ELSE /\ projects' = ProjectFindByIdAndUpdate(slot.body.project,
                                                          SlotTotals(k))
                  /\ inflight' = [inflight EXCEPT ![k].pc = "create",
                                                  ![k].seq = Writes + 1]
                  /\ UNCHANGED last
     /\ UNCHANGED <<parties, transactions, nreq, sent>>

\* await Transaction.create(...), then the response
CreateTransactionInsert ==
  \E k \in DOMAIN inflight :
     /\ inflight[k].pc = "create"
     /\ LET slot == inflight[k]
        IN /\ transactions' =
                Append(transactions,
                       [project |-> slot.body.project, party |-> slot.body.party,
                        type |-> slot.body.type, amount |-> slot.body.amount,
                        note |-> slot.body.note, createdBy |-> slot.userId,
                        isDeleted |-> FALSE])
           /\ inflight' = [inflight EXCEPT ![k].pc = "done",
                                           ![k].id = Len(transactions) + 1]
           /\ last' = [Done("createTransaction", 201,
                            "Transaction created successfully",
                            slot.body, slot.body.project)
                         EXCEPT !.before = slot.projectExists]
     /\ UNCHANGED <<projects, parties, nreq, sent>>

NextConc ==
  \/ CreateTransactionBegin
  \/ CreateTransactionFindProject
  \/ CreateTransactionFindParty
  \/ CreateTransactionUpdateProject
  \/ CreateTransactionInsert

SpecConc == Init /\ [][NextConc]_vars

(***************************************************************************)
(* SpecSteps: createTransaction, updateTransaction and deleteTransaction   *)
(* served concurrently on a ledger that holds two transactions.  A slot    *)
(* of an update or a delete keeps the documents the handler holds in       *)
(* transaction and project; seq is the rank of its findByIdAndUpdate.      *)
(***************************************************************************)
\* the store after u1 created an income of 200 and an expense of 500 on p1
InitLedger ==
  /\ projects = [p \in ProjectIds |->
                   IF p = "p1"
                     THEN [NewProject("u1") EXCEPT !.code = "P1",
                                                   !.totalIncome = 200,
                                                   !.totalExpense = 500]
                     ELSE [NewProject("u2") EXCEPT !.code = "P2"]]
  /\ parties = [q \in PartyIds |->
                  [project |-> IF q = "c2" THEN "p2" ELSE "p1",
                   partyType |-> IF q = "v1" THEN "VENDOR" ELSE "CLIENT",
                   name |-> IF q = "v1" THEN "B" ELSE "A"]]
  /\ transactions =
       <<[project |-> "p1", party |-> "c1", type |-> "income", amount |-> 200,
          note |-> "a", createdBy |-> "u1", isDeleted |-> FALSE],
         [project |-> "p1", party |-> "v1", type |-> "expense", amount |-> 500,
          note |-> "a", createdBy |-> "u1", isDeleted |-> FALSE]>>
  /\ last = [Response("none", 0, "") EXCEPT !.ledgerOnly = TRUE]
  /\ nreq = 0
  /\ sent = NoReq
  /\ inflight = <<>>

NoTransaction ==
  [project |-> "", party |-> "", type |-> "", amount |-> 0, note |-> "",
   createdBy |-> "", isDeleted |-> FALSE]

StepCreateBodies ==
  {[project |-> "p1", party |-> "c1", type |-> "income", amount |-> 700, note |-> "a"],
   [project |-> "p1", party |-> "v1", type |-> "income", amount |-> 700, note |-> "a"]}

StepUpdateBodies == {[amount |-> 700], [type |-> "expense"], [note |-> "b"]}

Arrive(op, userId, id, updates) ==
  /\ nreq < MaxConc
  /\ nreq' = nreq + 1
  /\ inflight' = Append(inflight,
                   [op |-> op, userId |-> userId, id |-> id, updates |-> updates,
                    pc |-> "findTransaction", transaction |-> NoTransaction,
                    project |-> NoDoc, seq |-> 0])
  /\ UNCHANGED <<projects, parties, transactions, last>>

CreateTransactionBeginSteps ==
  \E body \in StepCreateBodies :
     CreateTransactionArrive("u1", body) /\ UNCHANGED sent

UpdateTransactionBegin ==
  \E userId \in Users, id \in 1..2, updates \in StepUpdateBodies :
     Arrive("updateTransaction", userId, id, updates) /\ UNCHANGED sent

DeleteTransactionBegin ==
  \E id \in 1..2 :
     Arrive("deleteTransaction", "u1", id, EmptyFields) /\ UNCHANGED sent

\* the request of the slot supplies a kind or an amount
SuppliesTotals(slot) ==
  "amount" \in DOMAIN slot.updates \/ "type" \in DOMAIN slot.updates

\* await Transaction.findOne({_id, isDeleted: false, project: {$in: owned}})
TransactionFind ==
  \E k \in DOMAIN inflight :
     /\ inflight[k].pc = "findTransaction"
     /\ LET slot == inflight[k]
        IN IF ~ FindOwnedTransaction(slot.userId, slot.id)
             THEN /\ inflight' = [inflight EXCEPT ![k].pc = "rejected"]
                  /\ last' = Response(slot.op, 404, "Transaction not found")
             ELSE /\ inflight' = [inflight EXCEPT
                       ![k].transaction = transactions[slot.id],
                       ![k].pc = IF slot.op = "deleteTransaction"
                                   THEN "findProjectOfTransaction"
                                 ELSE IF "type" \in DOMAIN slot.updates
                                   THEN "findPartyOfTransaction"
                                 ELSE IF SuppliesTotals(slot)
                                   THEN "findProjectOfTransaction"
                                 ELSE "save"]
                  /\ UNCHANGED last
     /\ UNCHANGED <<projects, parties, transactions, nreq, sent>>

\* updateTransaction: await Party.findById(existingTransaction.party), then
\* the party type checks
UpdateTransactionFindParty ==
  \E k \in DOMAIN inflight :
     /\ inflight[k].pc = "findPartyOfTransaction"
     /\ LET slot == inflight[k]
        IN IF UpdateTypeError(slot.transaction, slot.updates) # ""
             THEN /\ inflight' = [inflight EXCEPT ![k].pc = "rejected"]
                  /\ last' = Response(slot.op, 400,
                               UpdateTypeError(slot.transaction, slot.updates))
             ELSE /\ inflight' = [inflight EXCEPT ![k].pc = "findProjectOfTransaction"]
                  /\ UNCHANGED last
     /\ UNCHANGED <<projects, parties, transactions, nreq, sent>>

\* await Project.findById(transaction.project)
TransactionFindProject ==
  \E k \in DOMAIN inflight :
     /\ inflight[k].pc = "findProjectOfTransaction"
     /\ LET slot == inflight[k]
        IN inflight' =
             IF slot.transaction.project \in DOMAIN projects
               THEN [inflight EXCEPT
                       ![k].project = projects[slot.transaction.project],
                       ![k].pc = "updateTotals"]
               ELSE [inflight EXCEPT ![k].pc = "save"]
     /\ UNCHANGED <<projects, parties, transactions, last, nreq, sent>>

\* the totals an update or a delete writes, from the documents it holds
HeldTotals(slot) ==
  IF slot.op = "deleteTransaction"
    THEN DeleteTotals(slot.project, slot.transaction)
    ELSE UpdateTotals(slot.project, slot.transaction, slot.updates)

\* the totals step that also persists the change of the record
TransactionUpdateProjectMutant ==
  \E k \in DOMAIN inflight :
     /\ inflight[k].pc = "updateTotals"
     /\ LET slot == inflight[k]
        IN /\ projects' = ProjectFindByIdAndUpdate(slot.transaction.project,
                                                   HeldTotals(slot))
           /\ transactions' =
                IF slot.op = "deleteTransaction"
                  THEN [transactions EXCEPT ![slot.id].isDeleted = TRUE]
                  ELSE [transactions EXCEPT ![slot.id] =
                          AssignUpdates(transactions[slot.id], slot.updates)]
           /\ inflight' = [inflight EXCEPT ![k].pc = "save",
                                           ![k].seq = Writes + 1]
     /\ UNCHANGED <<parties, last, nreq, sent>>

\* await Project.findByIdAndUpdate(project._id, totals)
TransactionUpdateProject ==
  \E k \in DOMAIN inflight :
     /\ inflight[k].pc = "updateTotals"
     /\ LET slot == inflight[k]
        IN /\ projects' = ProjectFindByIdAndUpdate(slot.transaction.project,
                                                   HeldTotals(slot))
           /\ inflight' = [inflight EXCEPT ![k].pc = "save",
                                           ![k].seq = Writes + 1]
     /\ UNCHANGED <<parties, transactions, last, nreq, sent>>

\* the paths save() writes: those the handler changed on the document it holds
Modified(slot) ==
  IF slot.op = "deleteTransaction"
    THEN [isDeleted |-> TRUE]
    ELSE [f \in {g \in DOMAIN slot.updates \cap TransactionPaths :
                   slot.updates[g] # slot.transaction[g]} |-> slot.updates[f]]

\* await transaction.save(), then the response
TransactionSave ==
  \E k \in DOMAIN inflight :
     /\ inflight[k].pc = "save"
     /\ LET slot == inflight[k]
            held == IF slot.op = "deleteTransaction"
                      THEN [slot.transaction EXCEPT !.isDeleted = TRUE]
                      ELSE AssignUpdates(slot.transaction, slot.updates)
        IN IF TransactionValidationError(held) # ""
             THEN /\ inflight' = [inflight EXCEPT ![k].pc = "rejected"]
                  /\ last' = Response(slot.op, 400,
                                      TransactionValidationError(held))
                  /\ UNCHANGED transactions
             ELSE /\ transactions' =
                       [transactions EXCEPT ![slot.id] =
                          [f \in TransactionPaths |->
                             IF f \in DOMAIN Modified(slot)
                               THEN Modified(slot)[f]
                               ELSE transactions[slot.id][f]]]
                  /\ inflight' = [inflight EXCEPT ![k].pc = "done"]
                  /\ last' = [Done(slot.op, 200,
                                   IF slot.op = "deleteTransaction"
                                     THEN "Transaction deleted successfully"
                                     ELSE "Transaction updated successfully",
                                   [id |-> slot.id, updates |-> slot.updates,
                                    old |-> slot.transaction],
                                   slot.transaction.project)
                                EXCEPT !.before = slot.project]
     /\ UNCHANGED <<projects, parties, nreq, sent>>

NextSteps ==
  \/ CreateTransactionBeginSteps
  \/ CreateTransactionFindProject
  \/ CreateTransactionFindParty
  \/ CreateTransactionUpdateProject
  \/ CreateTransactionInsert
  \/ UpdateTransactionBegin
  \/ DeleteTransactionBegin
  \/ TransactionFind
  \/ UpdateTransactionFindParty
  \/ TransactionFindProject
  \/ TransactionUpdateProject
  \/ TransactionSave

SpecSteps == InitLedger /\ [][NextSteps]_vars

(***************************************************************************)
(* SpecParty: createParty, updateParty, deleteProject and                  *)
(* forceDeleteProject served concurrently, one store operation at a time.  *)
(* The first step of a request is its arrival and its first read.          *)
(***************************************************************************)
\* the store after u1 created p1 with the parties c1 and v1 and u2 created
\* p2, which has no party yet
InitParty ==
  /\ projects = [p \in ProjectIds |->
                   [NewProject(IF p = "p1" THEN "u1" ELSE "u2")
                      EXCEPT !.code = IF p = "p1" THEN "P1" ELSE "P2"]]
  /\ parties = [q \in {"c1", "v1"} |->
                  [project |-> "p1",
                   partyType |-> IF q = "v1" THEN "VENDOR" ELSE "CLIENT",
                   name |-> IF q = "v1" THEN "B" ELSE "A"]]
  /\ transactions = <<>>
  /\ last = [Response("none", 0, "") EXCEPT !.ledgerOnly = TRUE]
  /\ nreq = 0
  /\ sent = NoReq
  /\ inflight = <<>>

NewPartyBodies ==
  {[name |-> "A", partyType |-> "CLIENT"], [name |-> "C", partyType |-> "VENDOR"]}

\* a request arrives and makes its first read, Project.findById
ArriveAtProject(op, projectId, partyId, body, then) ==
  /\ nreq < MaxConc
  /\ nreq' = nreq + 1
  /\ inflight' = Append(inflight,
                   [op |-> op, projectId |-> projectId, partyId |-> partyId,
                    body |-> body,
                    pc |-> IF projectId \in DOMAIN projects
                             THEN then ELSE "rejected"])
  /\ last' = IF projectId \in DOMAIN projects
               THEN last ELSE Response(op, 404, "Project not found")
  /\ UNCHANGED <<projects, parties, transactions>>

\* the slot k moves on, or ends with an error response
Proceed(k, error, status, then) ==
  /\ inflight' = [inflight EXCEPT ![k].pc = IF error = "" THEN then ELSE "rejected"]
  /\ last' = IF error = "" THEN last
             ELSE Response(inflight[k].op, status, error)

\* the slot k ends with its response
Finish(k, message) ==
  /\ inflight' = [inflight EXCEPT ![k].pc = "done"]
  /\ last' = Response(inflight[k].op, 200, message)

createPartyFindProject ==
  \E projectId \in ProjectIds, body \in NewPartyBodies :
     /\ ArriveAtProject("createParty", projectId, NewId, body, "findExisting")
     /\ UNCHANGED sent

\* await Party.findOne({project: projectId, name: name.trim()})
createPartyFindExisting ==
  \E k \in DOMAIN inflight :
     /\ inflight[k].op = "createParty" /\ inflight[k].pc = "findExisting"
     /\ Proceed(k,
          IF \E q \in DOMAIN parties :
                /\ parties[q].project = inflight[k].projectId
                /\ parties[q].name = Trim(inflight[k].body.name)
            THEN "Party with this name already exists in this project" ELSE "",
          409, "save")
     /\ UNCHANGED <<projects, parties, transactions, nreq, sent>>

\* await party.save()
createPartySave ==
  \E k \in DOMAIN inflight :
     /\ inflight[k].op = "createParty" /\ inflight[k].pc = "save"
     /\ LET slot == inflight[k]
        IN parties' =
             [q \in DOMAIN parties \cup {slot.partyId} |->
                IF q = slot.partyId
                  THEN [project |-> slot.projectId,
                        partyType |-> slot.body.partyType,
                        name |-> Trim(slot.body.name)]
                  ELSE parties[q]]
     /\ Finish(k, "created successfully")
     /\ UNCHANGED <<projects, transactions, nreq, sent>>

updatePartyFindProject ==
  \E partyId \in {"c1", "v1"}, name \in {"B", "C"} :
     /\ ArriveAtProject("updateParty", "p1", partyId, [name |-> name], "findParty")
     /\ UNCHANGED sent

\* await Party.findOne({_id: partyId, project: projectId})
updatePartyFindParty ==
  \E k \in DOMAIN inflight :
     /\ inflight[k].op = "updateParty" /\ inflight[k].pc = "findParty"
     /\ LET slot == inflight[k]
            found == /\ slot.partyId \in DOMAIN parties
                     /\ parties[slot.partyId].project = slot.projectId
        IN IF ~ found THEN Proceed(k, "Party not found", 404, "")
           ELSE IF slot.body.name = parties[slot.partyId].name
             THEN Proceed(k, "", 0, "updateNothing")
           ELSE Proceed(k, "", 0, "findDuplicate")
     /\ UNCHANGED <<projects, parties, transactions, nreq, sent>>

\* await Party.findOne({project, name: name.trim(), _id: {$ne: partyId}})
updatePartyFindDuplicate ==
  \E k \in DOMAIN inflight :
     /\ inflight[k].op = "updateParty" /\ inflight[k].pc = "findDuplicate"
     /\ Proceed(k,
          IF DuplicateName(inflight[k].projectId, inflight[k].partyId,
                           Trim(inflight[k].body.name))
            THEN "Party with this name already exists in this project" ELSE "",
          409, "update")
     /\ UNCHANGED <<projects, parties, transactions, nreq, sent>>

\* await Party.findByIdAndUpdate(partyId, {$set: updateFields}); the name
\* is in updateFields when it differs from the name that was found
updatePartyUpdate ==
  \E k \in DOMAIN inflight :
     /\ inflight[k].op = "updateParty"
     /\ inflight[k].pc \in {"update", "updateNothing"}
     /\ LET slot == inflight[k]
        IN parties' =
             IF slot.pc = "update" /\ slot.partyId \in DOMAIN parties
               THEN [parties EXCEPT ![slot.partyId].name = Trim(slot.body.name)]
               ELSE parties
     /\ Finish(k, "Party updated successfully")
     /\ UNCHANGED <<projects, transactions, nreq, sent>>

deleteProjectFind ==
  \E id \in ProjectIds :
     /\ ArriveAtProject("deleteProject", id, "", EmptyFields, "count")
     /\ UNCHANGED sent

\* await Party.countDocuments({project: id})
deleteProjectCount ==
  \E k \in DOMAIN inflight :
     /\ inflight[k].op = "deleteProject" /\ inflight[k].pc = "count"
     /\ Proceed(k,
          IF PartiesCount(inflight[k].projectId) > 0
            THEN "Cannot delete project. It has associated parties." ELSE "",
          400, "delete")
     /\ UNCHANGED <<projects, parties, transactions, nreq, sent>>

forceDeleteProjectFind ==
  \E id \in ProjectIds :
     /\ ArriveAtProject("forceDeleteProject", id, "", EmptyFields, "deleteMany")
     /\ UNCHANGED sent

\* await Party.deleteMany({project: id})
forceDeleteProjectDeleteMany ==
  \E k \in DOMAIN inflight :
     /\ inflight[k].op = "forceDeleteProject" /\ inflight[k].pc = "deleteMany"
     /\ parties' = [q \in {r \in DOMAIN parties :
                             parties[r].project # inflight[k].projectId} |->
                      parties[q]]
     /\ Proceed(k, "", 0, "delete")
     /\ UNCHANGED <<projects, transactions, nreq, sent>>

\* await Project.findByIdAndDelete(id), of deleteProject and forceDeleteProject
ProjectFindByIdAndDelete ==
  \E k \in DOMAIN inflight :
     /\ inflight[k].op \in {"deleteProject", "forceDeleteProject"}
     /\ inflight[k].pc = "delete"
     /\ projects' = [p \in DOMAIN projects \ {inflight[k].projectId} |-> projects[p]]
     /\ Finish(k, "Project deleted successfully")
     /\ UNCHANGED <<parties, transactions, nreq, sent>>

NextParty ==
  \/ createPartyFindProject
  \/ createPartyFindExisting
  \/ createPartySave
  \/ updatePartyFindProject
  \/ updatePartyFindParty
  \/ updatePartyFindDuplicate
  \/ updatePartyUpdate
  \/ deleteProjectFind
  \/ deleteProjectCount
  \/ forceDeleteProjectFind
  \/ forceDeleteProjectDeleteMany
  \/ ProjectFindByIdAndDelete

SpecParty == InitParty /\ [][NextParty]_vars

(***************************************************************************)
(* Properties.                                                             *)
(***************************************************************************)
Succeeded(resp) == resp.status \in {200, 201}

\* the persisted totals of a project; netProfit is the balance field
Totals(ps, p) == <<ps[p].totalIncome, ps[p].totalExpense, ps[p].netProfit>>

RECURSIVE SumUpTo(_, _, _)
\* sum of the amounts of the first n transactions that are not soft-deleted,
\* belong to project p and have the given kind
SumUpTo(n, p, kind) ==
  IF n = 0 THEN 0
  ELSE SumUpTo(n - 1, p, kind)
       + (IF /\ transactions[n].project = p
             /\ transactions[n].type = kind
             /\ ~ transactions[n].isDeleted
            THEN transactions[n].amount ELSE 0)

SumOfKind(p, kind) == SumUpTo(Len(transactions), p, kind)

\* Party Type Policy as the specification states it
Compatible(partyType, kind) ==
  \/ partyType = "CLIENT" /\ kind = "income"
  \/ partyType = "VENDOR" /\ kind = "expense"

\* C1: after each transaction request that completes successfully, the
\* balance field of the project equals totalIncome minus totalExpense.
C1_BalanceIsIncomeMinusExpense ==
  (last.op \in TransactionOps /\ Succeeded(last) /\ last.project \in DOMAIN projects)
    => projects[last.project].netProfit =
         projects[last.project].totalIncome - projects[last.project].totalExpense

\* C2: after a sequence of successful transaction requests only, served one
\* at a time from zero totals, totalIncome and totalExpense of every project
\* are the sums of the amounts of its income and expense transactions that
\* are not soft-deleted.
C2_TotalsAreSums ==
  last.ledgerOnly =>
    \A p \in DOMAIN projects :
       /\ projects[p].totalIncome = SumOfKind(p, "income")
       /\ projects[p].totalExpense = SumOfKind(p, "expense")

\* C3: a successful createTransaction of kind income and amount A on totals
\* (I, E) leaves totalIncome = I + A, totalExpense = E, balance = I + A - E.
C3_CreateIncome ==
  (last.op = "createTransaction" /\ Succeeded(last) /\ last.req.type = "income")
    => Totals(projects, last.project) =
         <<last.before.totalIncome + last.req.amount,
           last.before.totalExpense,
           last.before.totalIncome + last.req.amount - last.before.totalExpense>>

\* C4: creating an expense transaction and soft-deleting it in the very next
\* request returns the three totals of the project to the values they had
\* before the creation.
C4_CreateThenDeleteRestores ==
  [][(/\ last.op = "createTransaction" /\ Succeeded(last)
      /\ last.req.type = "expense"
      /\ last'.op = "deleteTransaction" /\ Succeeded(last')
      /\ last'.req.id = Len(transactions))
       => Totals(projects', last.project) =
            <<last.before.totalIncome, last.before.totalExpense,
              last.before.netProfit>>]_vars

\* C5: a successful updateTransaction that changes only the amount, from A
\* to B, changes the accumulator of the kind of the transaction by B - A and
\* leaves the other accumulator unchanged.
C5_AmountOnlyUpdate ==
  [][(/\ last'.op = "updateTransaction" /\ Succeeded(last')
      /\ "amount" \in DOMAIN last'.req.updates
      /\ DOMAIN last'.req.updates \subseteq {"amount", "type"}
      /\ ("type" \in DOMAIN last'.req.updates
            => last'.req.updates.type = transactions[last'.req.id].type))
       => LET old == transactions[last'.req.id]
              p == old.project
              delta == last'.req.updates.amount - old.amount
          IN IF old.type = "income"
               THEN /\ projects'[p].totalIncome = projects[p].totalIncome + delta
                    /\ projects'[p].totalExpense = projects[p].totalExpense
               ELSE /\ projects'[p].totalExpense = projects[p].totalExpense + delta
                    /\ projects'[p].totalIncome = projects[p].totalIncome]_vars

\* an update of the amount alone, to a different amount, was carried out
C5_Witness ==
  /\ last.op = "updateTransaction" /\ Succeeded(last)
  /\ DOMAIN last.req.updates = {"amount"}
  /\ last.req.updates.amount # last.req.old.amount
  /\ last.req.old.amount > 0

\* C6: a successful updateTransaction that changes the kind of a transaction
\* of amount A from income to expense, without supplying an amount, lowers
\* totalIncome by A and raises totalExpense by A.
C6_IncomeToExpense ==
  [][(/\ last'.op = "updateTransaction" /\ Succeeded(last')
      /\ "type" \in DOMAIN last'.req.updates
      /\ "amount" \notin DOMAIN last'.req.updates
      /\ last'.req.updates.type = "expense"
      /\ transactions[last'.req.id].type = "income")
       => LET old == transactions[last'.req.id]
              p == old.project
          IN /\ projects'[p].totalIncome = projects[p].totalIncome - old.amount
             /\ projects'[p].totalExpense = projects[p].totalExpense + old.amount]_vars

\* an update of the kind alone, from income to expense, was carried out
C6_Witness ==
  /\ last.op = "updateTransaction" /\ Succeeded(last)
  /\ DOMAIN last.req.updates = {"type"}
  /\ last.req.updates.type = "expense"
  /\ last.req.old.type = "income"
  /\ last.req.old.amount > 0
  /\ transactions[last.req.id].type = "expense"

\* the transaction records of the scenario of C7
T1(amount) ==
  [project |-> "p1", party |-> "c1", type |-> "income", amount |-> amount,
   note |-> "a", createdBy |-> "u1", isDeleted |-> FALSE]

T2(isDeleted) ==
  [project |-> "p1", party |-> "v1", type |-> "expense", amount |-> 200,
   note |-> "a", createdBy |-> "u1", isDeleted |-> isDeleted]

\* C7: from (0, 0, 0), create income T1 of 500, create expense T2 of 200,
\* update the amount of T1 to 700, soft-delete T2: the project is at
\* (500, 0, 500), (500, 200, 300), (700, 200, 500), (700, 0, 700) after the
\* steps.  nreq counts every request, so the first three steps are the only
\* requests served; the fourth step is taken from the state (700, 200, 500)
\* with T1 at 700 and T2 stored.
C7_Scenario ==
  /\ (nreq = 1 /\ transactions = <<T1(500)>>)
       => Totals(projects, "p1") = <<500, 0, 500>>
  /\ (nreq = 2 /\ transactions = <<T1(500), T2(FALSE)>>)
       => Totals(projects, "p1") = <<500, 200, 300>>
  /\ (/\ nreq = 3 /\ transactions = <<T1(700), T2(FALSE)>>
      /\ last.op = "updateTransaction" /\ Succeeded(last)
      /\ last.req.id = 1 /\ last.req.old = T1(500)
      /\ last.req.updates = [amount |-> 700])
       => Totals(projects, "p1") = <<700, 200, 500>>
  /\ (/\ nreq = 4 /\ transactions = <<T1(700), T2(TRUE)>>
      /\ last.op = "deleteTransaction" /\ Succeeded(last)
      /\ last.req.id = 2
      /\ Totals([p \in {"p1"} |-> last.before], "p1") = <<700, 200, 500>>)
       => Totals(projects, "p1") = <<700, 0, 700>>

\* C8: a createTransaction request whose party is a CLIENT and whose kind is
\* expense, or whose party is a VENDOR and whose kind is income, is rejected
\* with an error and changes neither the projects nor the transactions.  A
\* createTransaction that is accepted has a kind compatible with the category
\* of its party, and one that is not accepted ends with an error and leaves
\* both collections as they were.
C8_MismatchedCreateRejected ==
  [][last'.op = "createTransaction"
       => IF Succeeded(last')
            THEN Compatible(parties[last'.req.party].partyType, last'.req.type)
            ELSE /\ last'.status >= 400
                 /\ UNCHANGED <<projects, transactions>>]_vars

\* a createTransaction was rejected by the Party Type Policy
C8_Witness ==
  /\ last.op = "createTransaction"
  /\ last.status = 400
  /\ last.message \in {"CLIENT party can only have INCOME transactions",
                       "VENDOR party can only have EXPENSE transactions"}

\* C9: every transaction that is not soft-deleted has a kind compatible with
\* the current category of the party it references.
C9_KindMatchesPartyCategory ==
  \A i \in DOMAIN transactions :
     (~ transactions[i].isDeleted /\ transactions[i].party \in DOMAIN parties)
       => Compatible(parties[transactions[i].party].partyType,
                     transactions[i].type)

\* C10: every stored transaction has an amount strictly greater than 0.
C10_AmountPositive ==
  \A i \in DOMAIN transactions : transactions[i].amount > 0

\* C11: every stored transaction references a party whose project is the
\* project of the transaction.
C11_PartyOfSameProject ==
  \A i \in DOMAIN transactions :
     /\ transactions[i].party \in DOMAIN parties
          => parties[transactions[i].party].project = transactions[i].project

\* C15: a createTransaction, updateTransaction or deleteTransaction request
\* that ends with an error response leaves the projects and the transaction
\* records as they were.
C15_ErrorLeavesStore ==
  [][(last'.op \in TransactionOps /\ last'.status >= 400)
       => UNCHANGED <<projects, transactions>>]_vars

\* C16: an updateTransaction that supplies a kind succeeds only when the
\* Party Type Policy accepted the category of the party of the transaction
\* with the new kind.
C16_KindUpdateChecked ==
  [][(/\ last'.op = "updateTransaction" /\ Succeeded(last')
      /\ "type" \in DOMAIN last'.req.updates)
       => /\ transactions[last'.req.id].party \in DOMAIN parties
          /\ Compatible(parties[transactions[last'.req.id].party].partyType,
                        last'.req.updates.type)]_vars

\* C18: no transaction request removes a transaction record, a soft-delete
\* flag that is set stays set, and deleteTransaction changes nothing of the
\* record but the flag.
C18_RecordsRetained ==
  [][/\ Len(transactions') >= Len(transactions)
     /\ \A i \in DOMAIN transactions :
          transactions[i].isDeleted
            => (i \in DOMAIN transactions' /\ transactions'[i].isDeleted)
     /\ (last'.op = "deleteTransaction" /\ Succeeded(last'))
          => transactions' =
               [transactions EXCEPT ![last'.req.id].isDeleted = TRUE]]_vars

\* a transaction was soft-deleted and its record is still stored
C18_Witness ==
  /\ last.op = "deleteTransaction" /\ Succeeded(last)
  /\ last.req.id \in DOMAIN transactions
  /\ transactions[last.req.id].isDeleted
  /\ ~ last.req.old.isDeleted

ByIdOps == {"getTransactionById", "updateTransaction", "deleteTransaction"}

\* the transaction is stored and its project is not a project of the user
Foreign(userId, id) ==
  /\ id \in DOMAIN transactions
  /\ \/ transactions[id].project \notin DOMAIN projects
     \/ projects[transactions[id].project].createdBy # userId

\* C12: getTransactionById, updateTransaction and deleteTransaction by a
\* user on a transaction that is soft-deleted or whose project the user does
\* not own answer 404 and change neither the projects nor the transactions.
C12_HiddenTransactionNotFound ==
  [][(/\ sent'.op \in ByIdOps
      /\ sent'.userId \in Users
      /\ sent'.id \in DOMAIN transactions
      /\ (transactions[sent'.id].isDeleted \/ Foreign(sent'.userId, sent'.id)))
       => /\ last'.status = 404
          /\ UNCHANGED <<projects, transactions>>]_vars

\* the owner addressed a transaction after its soft delete and got 404
C12_Witness ==
  /\ sent # NoReq
  /\ sent.op \in {"updateTransaction", "deleteTransaction"}
  /\ sent.userId \in Users
  /\ sent.id \in DOMAIN transactions
  /\ transactions[sent.id].isDeleted
  /\ ~ Foreign(sent.userId, sent.id)
  /\ last.status = 404

\* C13: the response (status and message) of getTransactionById,
\* updateTransaction and deleteTransaction to a user is the same whether the
\* id is of a transaction of a project of another user or of no transaction.
C13_ForeignLooksAbsent ==
  [][(/\ sent'.op \in ByIdOps
      /\ sent'.userId \in Users
      /\ (sent'.id \notin DOMAIN transactions \/ Foreign(sent'.userId, sent'.id)))
       => /\ last'.op = sent'.op
          /\ <<last'.status, last'.message>> = <<404, "Transaction not found">>]_vars

\* a user addressed a stored, not soft-deleted transaction of another user
C13_Witness ==
  /\ sent # NoReq
  /\ sent.op \in ByIdOps
  /\ sent.userId \in Users
  /\ Foreign(sent.userId, sent.id)
  /\ ~ transactions[sent.id].isDeleted
  /\ last.status = 404

\* the live transactions
Live == {i \in DOMAIN transactions : ~ transactions[i].isDeleted}

ListOps == {"getAllTransactions", "getTransactionsByProject"}

\* C17: a soft-deleted transaction is in the result of no getAllTransactions
\* or getTransactionsByProject and adds nothing to their summary.
C17_DeletedNeverListed ==
  (last.op \in ListOps /\ Succeeded(last))
    => /\ last.req.data \subseteq Live
       /\ last.req.summary.totalIncome =
            SumSelected(Len(transactions), last.req.data \cap Live, "income")
       /\ last.req.summary.totalExpense =
            SumSelected(Len(transactions), last.req.data \cap Live, "expense")
       /\ last.req.summary.totalTransactions =
            Cardinality(last.req.data \cap Live)

\* the owner listed all transactions while one of them was soft-deleted
C17_Witness ==
  /\ last.op = "getAllTransactions" /\ Succeeded(last)
  /\ last.req.query = [page |-> 1]
  /\ \E i \in DOMAIN transactions :
        /\ transactions[i].isDeleted
        /\ ~ Foreign(last.req.userId, i)
        /\ i \notin last.req.data

\* C19: the read handlers leave projects, parties and transactions
\* unchanged, and the summary of a list is the sums over the selected
\* transactions, whatever the accumulators of the project hold.
C19_ReadsChangeNothing ==
  [][last'.op \in ListOps \cup {"getTransactionById"}
       => /\ UNCHANGED <<projects, parties, transactions>>
          /\ (last'.op \in ListOps /\ Succeeded(last'))
               => /\ last'.req.summary.totalIncome =
                       SumSelected(Len(transactions), last'.req.data, "income")
                  /\ last'.req.summary.totalExpense =
                       SumSelected(Len(transactions), last'.req.data, "expense")
                  /\ last'.req.summary.netAmount =
                       last'.req.summary.totalIncome
                         - last'.req.summary.totalExpense]_vars

\* a project was listed while its accumulators differ from the summary
C19_Witness ==
  /\ last.op = "getTransactionsByProject" /\ Succeeded(last)
  /\ last.req.query = [page |-> 1]
  /\ last.req.summary.totalIncome # projects[last.project].totalIncome

\* the preconditions of createTransaction on the stored projects and parties
ProjectOwned(userId, body) ==
  /\ body.project \in DOMAIN projects
  /\ projects[body.project].createdBy = userId

PartyInProject(body) ==
  /\ body.party \in DOMAIN parties
  /\ parties[body.party].project = body.project

CategoryError(body) == PartyTypeError(parties[body.party].partyType, body.type)

AmountMessages ==
  {"Project, Party, Type, and Amount are required fields",
   "Amount must be greater than 0"}

PartyNotFound == "Party not found or not associated with this project"

\* C14 as stated: the first failing precondition in the order project owned
\* (404), party of the project (404), party category compatible (400),
\* amount > 0 (400) decides the error of createTransaction.
C14_OrderAsStated ==
  [][(/\ sent'.op = "createTransaction"
      /\ sent'.userId \in Users
      /\ sent'.body.type \in Types)
       => LET b == sent'.body
              r == <<last'.status, last'.message>>
          IN IF ~ ProjectOwned(sent'.userId, b) THEN r = <<404, "Project not found">>
             ELSE IF ~ PartyInProject(b) THEN r = <<404, PartyNotFound>>
             ELSE IF CategoryError(b) # "" THEN r = <<400, CategoryError(b)>>
             ELSE IF b.amount <= 0
               THEN last'.status = 400 /\ last'.message \in AmountMessages
             ELSE last'.status = 201]_vars

\* C14 amended: the order is amount > 0 (400), kind valid (400), project
\* owned (404), party of the project (404), party category compatible (400);
\* the first failing precondition in this order decides the error.
C14_OrderOfChecks ==
  [][(/\ sent'.op = "createTransaction"
      /\ sent'.userId \in Users)
       => LET b == sent'.body
              r == <<last'.status, last'.message>>
          IN IF b.amount <= 0
               THEN last'.status = 400 /\ last'.message \in AmountMessages
             ELSE IF b.type \notin Types
               THEN r = <<400, "Type must be either 'income' or 'expense'">>
             ELSE IF ~ ProjectOwned(sent'.userId, b) THEN r = <<404, "Project not found">>
             ELSE IF ~ PartyInProject(b) THEN r = <<404, PartyNotFound>>
             ELSE IF CategoryError(b) # "" THEN r = <<400, CategoryError(b)>>
             ELSE last'.status = 201]_vars

\* a request with a project of another user and an amount that is not
\* positive was answered with the error of the amount
C14_Witness ==
  /\ sent # NoReq
  /\ sent.op = "createTransaction"
  /\ sent.userId \in Users
  /\ sent.body.type \in Types
  /\ ~ ProjectOwned(sent.userId, sent.body)
  /\ sent.body.amount <= 0
  /\ last.status = 400
  /\ last.message \in AmountMessages

\* two served requests on one project that both read the project before
\* either wrote, and no other request has written since
Raced(a, b) ==
  /\ a # b
  /\ inflight[a].pc = "done" /\ inflight[b].pc = "done"
  /\ inflight[a].body.project = inflight[b].body.project
  /\ inflight[a].projectExists = inflight[b].projectExists
  /\ inflight[a].writes < inflight[b].seq
  /\ inflight[b].writes < inflight[a].seq
  /\ inflight[a].seq < inflight[b].seq
  /\ inflight[b].seq = Writes

\* C20: when two createTransaction requests on one project have both read
\* the project before either wrote its totals, then after both are served
\* both records are stored and the totals of the project are the totals
\* both read plus the amount of the later writer only.
C20_LostUpdate ==
  \A a, b \in DOMAIN inflight :
     Raced(a, b)
       => LET p == inflight[a].body.project
              read == inflight[a].projectExists
              first == inflight[a].body
              second == inflight[b].body
          IN /\ inflight[a].id \in DOMAIN transactions
             /\ inflight[b].id \in DOMAIN transactions
             /\ inflight[a].id # inflight[b].id
             /\ transactions[inflight[a].id].amount = first.amount
             /\ transactions[inflight[b].id].amount = second.amount
             /\ projects[p].totalIncome =
                  read.totalIncome
                    + (IF second.type = "income" THEN second.amount ELSE 0)
             /\ projects[p].totalExpense =
                  read.totalExpense
                    + (IF second.type = "expense" THEN second.amount ELSE 0)
             /\ projects[p].totalIncome + projects[p].totalExpense
                  < read.totalIncome + read.totalExpense
                      + first.amount + second.amount

\* two requests raced and both were served
C20_Witness ==
  \E a, b \in DOMAIN inflight :
     /\ Raced(a, b)
     /\ Len(transactions) = 2
     /\ inflight[a].body.type = "income"
     /\ inflight[b].body.type = "income"
     /\ projects[inflight[a].body.project].totalIncome = inflight[b].body.amount

\* C22: totalIncome and totalExpense of every project are never negative.
C22_TotalsNonNegative ==
  \A p \in DOMAIN projects :
     projects[p].totalIncome >= 0 /\ projects[p].totalExpense >= 0

\* the relative increment of the reference engine for a served request, on
\* the accumulator of the given kind: +amount on create, -old and +new on
\* update, -amount on soft delete
RefIncrement(resp, kind) ==
  LET plus(type, amount) == IF type = kind THEN amount ELSE 0
  IN CASE resp.op = "createTransaction" ->
            plus(resp.req.type, resp.req.amount)
       [] resp.op = "updateTransaction" ->
            plus(IF "type" \in DOMAIN resp.req.updates
                   THEN resp.req.updates.type ELSE resp.req.old.type,
                 IF "amount" \in DOMAIN resp.req.updates
                   THEN resp.req.updates.amount ELSE resp.req.old.amount)
              - plus(resp.req.old.type, resp.req.old.amount)
       [] resp.op = "deleteTransaction" ->
            0 - plus(resp.req.old.type, resp.req.old.amount)

\* C27: requests served one at a time: every successful createTransaction,
\* updateTransaction and deleteTransaction moves totalIncome and
\* totalExpense of its project by the relative increment of the reference
\* engine and leaves those of the other projects, so the two engines agree
\* after every sequence of successful requests.
C27_AbsoluteEqualsRelative ==
  [][(last'.op \in TransactionOps /\ Succeeded(last'))
       => \A p \in DOMAIN projects :
             /\ projects'[p].totalIncome =
                  projects[p].totalIncome
                    + (IF p = last'.project
                         THEN RefIncrement(last', "income") ELSE 0)
             /\ projects'[p].totalExpense =
                  projects[p].totalExpense
                    + (IF p = last'.project
                         THEN RefIncrement(last', "expense") ELSE 0)]_vars

\* three requests were carried out, the last one the soft delete of an
\* expense transaction
C27_Witness ==
  /\ nreq = 3
  /\ last.ledgerOnly
  /\ last.op = "deleteTransaction" /\ Succeeded(last)
  /\ last.req.old.type = "expense"
  /\ projects[last.project].totalExpense =
       last.before.totalExpense - last.req.old.amount

\* C30: a successful updateTransaction whose body has neither kind nor
\* amount leaves the totals of every project unchanged, and a project whose
\* totalIncome and totalExpense were the sums over its transactions that
\* are not soft-deleted still has that property after it.
C30_OtherFieldsKeepTotals ==
  [][(/\ last'.op = "updateTransaction" /\ Succeeded(last')
      /\ "type" \notin DOMAIN last'.req.updates
      /\ "amount" \notin DOMAIN last'.req.updates)
       => \A p \in DOMAIN projects :
             /\ Totals(projects', p) = Totals(projects, p)
             /\ (/\ projects[p].totalIncome = SumOfKind(p, "income")
                 /\ projects[p].totalExpense = SumOfKind(p, "expense"))
                  => /\ projects'[p].totalIncome = SumOfKind(p, "income")'
                     /\ projects'[p].totalExpense = SumOfKind(p, "expense")']_vars

\* the transactions that reference project p
TransactionsOf(p) == {i \in DOMAIN transactions : transactions[i].project = p}

\* C23: a transaction request of a user changes neither the totals of a
\* project of another user nor the set of transactions that reference it.
C23_OtherUsersProjectsUntouched ==
  [][(sent'.op \in TransactionOps /\ sent'.userId \in Users)
       => \A p \in DOMAIN projects :
             projects[p].createdBy # sent'.userId
               => /\ Totals(projects', p) = Totals(projects, p)
                  /\ TransactionsOf(p)' = TransactionsOf(p)]_vars

ProjectOps ==
  {"createProject", "updateProject", "updateProjectStatus", "updateProjectFinancials"}

\* C21: createProject, updateProject, updateProjectStatus and
\* updateProjectFinancials leave totalIncome and totalExpense of every
\* existing project unchanged.
C21_ProjectRequestsKeepTotals ==
  [][last'.op \in ProjectOps
       => \A p \in DOMAIN projects :
             /\ p \in DOMAIN projects'
             /\ projects'[p].totalIncome = projects[p].totalIncome
             /\ projects'[p].totalExpense = projects[p].totalExpense]_vars

\* the transaction is stored and its project is not
Orphan(id) ==
  /\ id \in DOMAIN transactions
  /\ transactions[id].project \notin DOMAIN projects

\* C28: a successful forceDeleteProject removes the project and its parties
\* and leaves every transaction record as it is; getTransactionById,
\* updateTransaction and deleteTransaction by a user on a transaction whose
\* project is no longer stored answer 404 and change nothing.
C28_OrphansKeptAndHidden ==
  [][/\ (last'.op = "forceDeleteProject" /\ Succeeded(last'))
          => /\ transactions' = transactions
             /\ sent'.id \notin DOMAIN projects'
             /\ \A q \in DOMAIN parties' : parties'[q].project # sent'.id
     /\ (sent'.op \in ByIdOps /\ sent'.userId \in Users /\ Orphan(sent'.id))
          => /\ last'.status = 404
             /\ UNCHANGED <<projects, parties, transactions>>]_vars

\* the creator of a transaction addressed it after its project was force
\* deleted and got 404
C28_Witness ==
  /\ sent # NoReq
  /\ sent.op \in ByIdOps
  /\ Orphan(sent.id)
  /\ ~ transactions[sent.id].isDeleted
  /\ transactions[sent.id].createdBy = sent.userId
  /\ transactions[sent.id].project = "p1"
  /\ last.status = 404

\* the handler of the slot writes project totals before its record
NeedsTotals(slot) ==
  IF "op" \in DOMAIN slot
    THEN slot.op = "deleteTransaction" \/ SuppliesTotals(slot)
    ELSE TRUE

\* the slot has written what it writes to the project and not yet its record
Between(slot) == slot.pc \in {"create", "save"} /\ slot.seq > 0

\* C26: in createTransaction, updateTransaction and deleteTransaction the
\* totals of the project are written in a step before the step that writes
\* the transaction record: no step writes both, the record is written only
\* by a request that has written its totals, and a request that runs alone
\* and is between the two writes sees its totals in the project and the
\* record as it found it.
C26_TotalsBeforeRecord ==
  [][/\ projects' # projects => transactions' = transactions
     /\ transactions' # transactions
          => /\ projects' = projects
             /\ \E k \in DOMAIN inflight :
                   /\ inflight[k].pc \in {"create", "save"}
                   /\ inflight'[k].pc = "done"
                   /\ NeedsTotals(inflight[k]) => inflight[k].seq > 0
     /\ (Len(inflight') = 1 /\ Between(inflight'[1]))
          => LET slot == inflight'[1]
             IN IF "op" \in DOMAIN slot
                  THEN /\ transactions'[slot.id] = slot.transaction
                       /\ projects'[slot.transaction.project].totalIncome =
                            HeldTotals(slot).totalIncome
                       /\ projects'[slot.transaction.project].totalExpense =
                            HeldTotals(slot).totalExpense
                  ELSE /\ Len(transactions') = 2
                       /\ projects'[slot.body.project].totalIncome =
                            slot.projectExists.totalIncome
                              + (IF slot.body.type = "income"
                                   THEN slot.body.amount ELSE 0)]_vars

\* a delete of the income of 200 has lowered totalIncome and has not yet
\* set the flag of the record
C26_Witness ==
  \E k \in DOMAIN inflight :
     /\ "op" \in DOMAIN inflight[k]
     /\ inflight[k].op = "deleteTransaction"
     /\ inflight[k].id = 1
     /\ Between(inflight[k])
     /\ projects["p1"].totalIncome = 0
     /\ ~ transactions[1].isDeleted

\* C29: when every request so far is a deleteTransaction of the income of
\* 200, totalIncome of its project never falls below its value before the
\* requests minus that amount.
C29_SubtractedAtMostOnce ==
  (/\ nreq = Len(inflight)
   /\ \A k \in DOMAIN inflight :
         /\ "op" \in DOMAIN inflight[k]
         /\ inflight[k].op = "deleteTransaction"
         /\ inflight[k].id = 1)
    => projects["p1"].totalIncome >= 200 - transactions[1].amount

\* C24: every stored party references a stored project.
C24_PartiesHaveProject ==
  \A q \in DOMAIN parties : parties[q].project \in DOMAIN projects

\* C25: no two parties of one project have the same name.
C25_PartyNamesUnique ==
  \A q, r \in DOMAIN parties :
     (q # r /\ parties[q].project = parties[r].project)
       => parties[q].name # parties[r].name

====
